---- MODULE Spec2Model ----
(***************************************************************************)
(* Model of the update-tailwind-globs sync generator                       *)
(* (packages/tailwind-sync-plugin, generator.ts = src/unnamed/part_001).   *)
(*                                                                         *)
(* Text.  A file's text is modelled as the non-empty sequence of its lines *)
(* (the text split at "\n"; the empty text is the single empty line).      *)
(* A line is a record [k, p]: k is the kind of statement the line holds,   *)
(* as far as the generator's regular expressions and String.includes       *)
(* calls can tell lines apart, and p is the path of an @source line.       *)
(* Markers and statements stand on lines of their own.                     *)
(*                                                                         *)
(* Paths.  A path is the sequence of its segments ("apps/a" is             *)
(* <<"apps", "a">>); the empty sequence is the empty string.               *)
(***************************************************************************)
EXTENDS Naturals, Sequences, FiniteSets

VARIABLES
    projectGraph,         \* [nodes, dependencies]: the graph createProjectGraphAsync gives
    tree,                 \* the Tree: path -> text, NoFile where no file exists
    additionalStylePaths, \* options.additionalStylePaths
    pc,                   \* position of the run / of the caller
    tailwindProjects,     \* the list findTailwindProjects returned
    next,                 \* position of the loop of lines 263-275 in tailwindProjects
    updatedProjects,      \* updateTailwindGlobsGenerator's updatedProjects
    result,               \* the SyncGeneratorResult returned
    writes,               \* history: the tree.write calls of the run, in order
    treeBefore,           \* history: the tree before the run / before the last merge
    updated,              \* the last return value of updateSourceDirectives
    merges,               \* history: merges since the graph last changed (0, 1, 2 = more)
    firstText,            \* history: the text the first merge read
    projectName,          \* collectDependencies: its argument
    queue,                \* collectDependencies: queue
    visited,              \* collectDependencies: visited
    dependencies,         \* collectDependencies: dependencies (a Set, in insertion order)
    expanded              \* history: the names whose edges the loop has expanded, in order

vars == <<projectGraph, tree, additionalStylePaths, pc, tailwindProjects, next,
          updatedProjects, result, writes, treeBefore, updated, merges, firstText,
          projectName, queue, visited, dependencies, expanded>>

runVars == <<additionalStylePaths, tailwindProjects, next, updatedProjects, result, writes>>
mergeVars == <<treeBefore, updated, merges, firstText>>
collectVars == <<projectName, queue, visited, dependencies, expanded>>

(***************************************************************************)
(* Bounds of the model.                                                    *)
(***************************************************************************)
MaxEdges == 3       \* edges of a graph handed to collectDependencies
MaxDocLen == 3      \* lines of a document handed to the merger

\* The project names of the model.
Names == {"a", "b", "c"}

(***************************************************************************)
(* Sequence helpers.                                                       *)
(***************************************************************************)
Range(s) == {s[i] : i \in 1..Len(s)}

SeqsUpTo(S, n) == UNION {[1..m -> S] : m \in 0..n}

RECURSIVE Concat(_)
Concat(ss) == IF ss = <<>> THEN <<>> ELSE Head(ss) \o Concat(Tail(ss))

(***************************************************************************)
(* collectDependencies (lines 130-152).                                    *)
(***************************************************************************)
\* Set.add on a Set kept in insertion order.
SetAdd(s, x) == IF x \in Range(s) THEN s ELSE Append(s, x)

RECURSIVE SetAddAll(_, _)
SetAddAll(s, xs) == IF xs = <<>> THEN s ELSE SetAddAll(SetAdd(s, Head(xs)), Tail(xs))

\* projectGraph.dependencies[current] || [], as the sequence of the edges' targets.
DepsOf(graph, current) ==
    IF current \in DOMAIN graph.dependencies THEN graph.dependencies[current] ELSE <<>>

\* The state collectDependencies starts its loop in (lines 134-136).
CollectInit(name) == [dependencies |-> <<>>, queue |-> <<name>>, visited |-> {}]

\* One iteration of the while loop (lines 139-148).
\* (variant: the targets are recorded but never queued)
CollectIterDirectOnly(st, graph) ==
    LET current == Head(st.queue)
        rest == Tail(st.queue)
        deps == DepsOf(graph, current)
    IN  IF current \in st.visited
        THEN [st EXCEPT !.queue = rest]
        ELSE [dependencies |-> SetAddAll(st.dependencies, deps),
              queue |-> rest,
              visited |-> st.visited \cup {current}]

\* (variant: no visited check, every dequeued name is expanded)
CollectIterNoVisited(st, graph) ==
    LET current == Head(st.queue)
        rest == Tail(st.queue)
        deps == DepsOf(graph, current)
    IN  [dependencies |-> SetAddAll(st.dependencies, deps),
         queue |-> rest \o deps,
         visited |-> st.visited \cup {current}]

CollectIter(st, graph) ==
    LET current == Head(st.queue)
        rest == Tail(st.queue)
        deps == DepsOf(graph, current)
    IN  IF current \in st.visited
        THEN [st EXCEPT !.queue = rest]
        ELSE [dependencies |-> SetAddAll(st.dependencies, deps),
              queue |-> rest \o deps,
              visited |-> st.visited \cup {current}]

RECURSIVE CollectLoop(_, _)
CollectLoop(st, graph) ==
    IF st.queue = <<>> THEN st.dependencies ELSE CollectLoop(CollectIter(st, graph), graph)

\* collectDependencies(projectName, projectGraph): the Set returned, in insertion order.
collectDependencies(name, graph) == CollectLoop(CollectInit(name), graph)

(***************************************************************************)
(* path: join, dirname, relative (line 8), on segment sequences.           *)
(***************************************************************************)
RECURSIVE NormalizeOnto(_, _)
NormalizeOnto(done, segs) ==
    IF segs = <<>> THEN done
    ELSE LET s == Head(segs)
         IN  IF s = "." THEN NormalizeOnto(done, Tail(segs))
             ELSE IF s = ".." /\ done # <<>> /\ done[Len(done)] # ".."
                  THEN NormalizeOnto(SubSeq(done, 1, Len(done) - 1), Tail(segs))
                  ELSE NormalizeOnto(Append(done, s), Tail(segs))

join(a, b) == NormalizeOnto(<<>>, a \o b)

dirname(p) == IF p = <<>> THEN <<>> ELSE SubSeq(p, 1, Len(p) - 1)

RECURSIVE CommonPrefixLen(_, _)
CommonPrefixLen(a, b) ==
    IF a = <<>> \/ b = <<>> \/ Head(a) # Head(b) THEN 0
    ELSE 1 + CommonPrefixLen(Tail(a), Tail(b))

relative(from, to) ==
    LET c == CommonPrefixLen(from, to)
    IN  [i \in 1..(Len(from) - c) |-> ".."] \o SubSeq(to, c + 1, Len(to))

(***************************************************************************)
(* Lines and documents.                                                    *)
(***************************************************************************)
Line(kind) == [k |-> kind, p |-> <<>>]

START_MARKER == Line("start")     \* the line "/* nx-tailwind-sources:start */"
END_MARKER == Line("end")         \* the line "/* nx-tailwind-sources:end */"
TwImport == Line("twImport")      \* @import 'tailwindcss';
TwNoSemi == Line("twNoSemi")      \* @import "tailwindcss" prefix(tw);  (no ; after the quote)
AnyImport == Line("import")       \* @import './other.css';
Text == Line("text")              \* any other non-empty line
Blank == Line("blank")            \* the empty line
ViteImport == Line("viteImport")  \* import tailwindcss from '@tailwindcss/vite';
ViteCall == Line("viteCall")      \* plugins: [tailwindcss()],

\* The line `@source "<relativePath>";` (line 174).
SourceLine(relativePath) == [k |-> "source", p |-> relativePath]

\* No file at a path: tree.read gives null, tree.exists false. A text has >= 1 line.
NoFile == <<>>

\* tree.read(path)?.toString() || ''  (line 182)
ReadOrEmpty(t, path) ==
    IF path \in DOMAIN t /\ t[path] # NoFile THEN t[path] ELSE <<Blank>>

Includes(doc, line) == \E i \in 1..Len(doc) : doc[i] = line

\* The first index >= from of a line satisfying Test, 0 when there is none.
FirstIndex(doc, from, Test(_)) ==
    IF \E i \in from..Len(doc) : Test(doc[i])
    THEN CHOOSE i \in from..Len(doc) :
            Test(doc[i]) /\ \A j \in from..(i - 1) : ~Test(doc[j])
    ELSE 0

Count(doc, line) == Cardinality({i \in 1..Len(doc) : doc[i] = line})

(***************************************************************************)
(* The rendered directive as a string of character codes, for the default  *)
(* Array.prototype.sort of line 179 (comparison by UTF-16 code unit).      *)
(***************************************************************************)
SegChars(s) ==
    CASE s = ".." -> <<46, 46>>
      [] s = "apps" -> <<97, 112, 112, 115>>
      [] s = "libs" -> <<108, 105, 98, 115>>
      [] s = "packages" -> <<112, 97, 99, 107, 97, 103, 101, 115>>
      [] s = "src" -> <<115, 114, 99>>
      [] s = "a" -> <<97>>
      [] s = "b" -> <<98>>
      [] s = "c" -> <<99>>
      [] OTHER -> <<122>>

RECURSIVE PathChars(_)
PathChars(p) ==
    IF p = <<>> THEN <<>>
    ELSE IF Len(p) = 1 THEN SegChars(p[1])
    ELSE SegChars(p[1]) \o <<47>> \o PathChars(Tail(p))

\* The part of `@source "<path>";` after the common prefix `@source "`.
DirectiveChars(line) == PathChars(line.p) \o <<34, 59>>

RECURSIVE CharsLess(_, _)
CharsLess(x, y) ==
    IF y = <<>> THEN FALSE
    ELSE IF x = <<>> THEN TRUE
    ELSE IF Head(x) # Head(y) THEN Head(x) < Head(y)
    ELSE CharsLess(Tail(x), Tail(y))

RECURSIVE InsertSorted(_, _)
InsertSorted(sorted, line) ==
    IF sorted = <<>> THEN <<line>>
    ELSE IF CharsLess(DirectiveChars(line), DirectiveChars(Head(sorted)))
         THEN <<line>> \o sorted
         ELSE <<Head(sorted)>> \o InsertSorted(Tail(sorted), line)

\* (variant: the list is left in the order of the traversal)
SortNone(lines) == lines

\* sourceDirectives.sort()  (line 179)
RECURSIVE Sort(_)
Sort(lines) ==
    IF lines = <<>> THEN <<>>
    ELSE InsertSorted(Sort(SubSeq(lines, 1, Len(lines) - 1)), lines[Len(lines)])

(***************************************************************************)
(* updateSourceDirectives (lines 157-242).                                 *)
(***************************************************************************)
\* project && project.data.root  (line 171); a node without a root has root <<>>.
HasRoot(graph, dep) == dep \in DOMAIN graph.nodes /\ graph.nodes[dep] # <<>>

\* (variant: the rendering stops at the first dependency without a rooted node)
RECURSIVE DirectivesUntilMissing(_, _, _)
DirectivesUntilMissing(deps, cssDir, graph) ==
    IF deps = <<>> \/ ~HasRoot(graph, Head(deps)) THEN <<>>
    ELSE <<SourceLine(relative(cssDir, graph.nodes[Head(deps)]))>>
             \o DirectivesUntilMissing(Tail(deps), cssDir, graph)

\* Lines 166-176: one directive per dependency with a rooted node, in Set order.
RECURSIVE Directives(_, _, _)
Directives(deps, cssDir, graph) ==
    IF deps = <<>> THEN <<>>
    ELSE (IF HasRoot(graph, Head(deps))
          THEN <<SourceLine(relative(cssDir, graph.nodes[Head(deps)]))>>
          ELSE <<>>) \o Directives(Tail(deps), cssDir, graph)

\* Lines 163-179.
sourceDirectives(name, cssFilePath, graph) ==
    Sort(Directives(collectDependencies(name, graph), dirname(cssFilePath), graph))

\* Lines 185-187.
managedBlock(directives) == <<START_MARKER>> \o directives \o <<END_MARKER>>

\* Lines 190-192.
hasMarkers(content) == Includes(content, START_MARKER) /\ Includes(content, END_MARKER)

\* markerRegex (lines 196-198): START, then as little as possible, then END.
\* The match is <<first line, last line>>, <<0, 0>> when the regex does not match.
MarkerMatch(content) ==
    LET s == FirstIndex(content, 1, LAMBDA l : l = START_MARKER)
        e == IF s = 0 THEN 0 ELSE FirstIndex(content, s + 1, LAMBDA l : l = END_MARKER)
    IN  IF s = 0 \/ e = 0 THEN <<0, 0>> ELSE <<s, e>>

\* currentContent.match(markerRegex)?.[0] || ''  (line 199); '' is no text of lines.
existingBlock(content) ==
    LET m == MarkerMatch(content)
    IN  IF m[1] = 0 THEN <<>> ELSE SubSeq(content, m[1], m[2])

\* (variant: a greedy regex, which matches up to the last end marker)
ReplaceBlockGreedy(content, block) ==
    LET m == MarkerMatch(content)
        last == CHOOSE e \in 1..Len(content) :
                    content[e] = END_MARKER /\ \A h \in (e + 1)..Len(content) : content[h] # END_MARKER
    IN  IF m[1] = 0 THEN content
        ELSE SubSeq(content, 1, m[1] - 1) \o block \o SubSeq(content, last + 1, Len(content))

\* (variant: an empty block is not written, the block found is taken out)
ReplaceBlockDropEmpty(content, block) ==
    LET s == FirstIndex(content, 1, LAMBDA l : l = START_MARKER)
        e == IF s = 0 THEN 0 ELSE FirstIndex(content, s + 1, LAMBDA l : l = END_MARKER)
    IN  IF s = 0 \/ e = 0 THEN content
        ELSE SubSeq(content, 1, s - 1)
                 \o (IF Len(block) = 2 THEN <<>> ELSE block)
                 \o SubSeq(content, e + 1, Len(content))

\* (variant: the block found in the text is kept as it is)
ReplaceBlockKeep(content, block) == content

\* currentContent.replace(markerRegex, managedBlock)  (line 206): the first match.
ReplaceBlock(content, block) ==
    LET m == MarkerMatch(content)
    IN  IF m[1] = 0 THEN content
        ELSE SubSeq(content, 1, m[1] - 1) \o block \o SubSeq(content, m[2] + 1, Len(content))

\* /@source\s+["'][^"']*packages\/[^"']+["'];/ on one line: an @source statement
\* whose path has a segment "packages" followed by more.
IsLegacy(line) ==
    /\ line.k = "source"
    /\ \E i \in 1..(Len(line.p) - 1) : line.p[i] = "packages"

\* Lines 213-216: the regex starts with "\n", so it removes a legacy line together
\* with the newline before it; the first line has no newline before it.
Cleaned(content) ==
    LET keep == {i \in 1..Len(content) : i = 1 \/ ~IsLegacy(content[i])}
        F[i \in 0..Len(content)] ==
            IF i = 0 THEN <<>>
            ELSE IF i \in keep THEN Append(F[i - 1], content[i]) ELSE F[i - 1]
    IN  F[Len(content)]

\* tailwindImportRegex (line 219) and anyImportRegex (line 223), which the engine
\* import with its semicolon matches too. The index of the matching line, 0 for null.
TailwindImportMatch(content) == FirstIndex(content, 1, LAMBDA l : l.k = "twImport")
AnyImportMatch(content) == FirstIndex(content, 1, LAMBDA l : l.k \in {"import", "twImport"})

\* Line 226.
ImportMatch(content) ==
    IF TailwindImportMatch(content) # 0 THEN TailwindImportMatch(content)
    ELSE AnyImportMatch(content)

\* (variant: without an import the block is put at the end of the text)
InsertBlockAppend(cleaned, block) ==
    LET m == FirstIndex(cleaned, 1, LAMBDA l : l.k \in {"import", "twImport"})
    IN  IF m # 0
        THEN LET importEndLine == IF m < Len(cleaned) THEN m ELSE 0
             IN  IF importEndLine = 0
                 THEN <<Blank>> \o block \o cleaned
                 ELSE SubSeq(cleaned, 1, importEndLine) \o <<Blank>> \o block
                          \o SubSeq(cleaned, importEndLine + 1, Len(cleaned))
        ELSE cleaned \o <<Blank>> \o block

\* Lines 229-238. indexOf('\n', index) is -1 when the import is on the last line,
\* which makes importEndIndex 0, beforeImport '' and afterImport the whole text.
InsertBlock(cleaned, block) ==
    LET m == ImportMatch(cleaned)
    IN  IF m # 0
        THEN LET importEndLine == IF m < Len(cleaned) THEN m ELSE 0
             IN  IF importEndLine = 0
                 THEN <<Blank>> \o block \o cleaned
                 ELSE SubSeq(cleaned, 1, importEndLine) \o <<Blank>> \o block
                          \o SubSeq(cleaned, importEndLine + 1, Len(cleaned))
        ELSE block \o <<Blank>> \o cleaned

\* updateSourceDirectives: [content: the text the file holds afterwards,
\* wrote: whether tree.write was called, updated: the value returned].
updateSourceDirectives(t, name, cssFilePath, graph) ==
    LET currentContent == ReadOrEmpty(t, cssFilePath)
        block == managedBlock(sourceDirectives(name, cssFilePath, graph))
    IN  IF hasMarkers(currentContent)
        THEN IF existingBlock(currentContent) = block
             THEN [content |-> IF cssFilePath \in DOMAIN t THEN t[cssFilePath] ELSE NoFile,
                   wrote |-> FALSE, updated |-> FALSE]
             ELSE [content |-> ReplaceBlock(currentContent, block),
                   wrote |-> TRUE, updated |-> TRUE]
        ELSE [content |-> InsertBlock(Cleaned(currentContent), block),
              wrote |-> TRUE, updated |-> TRUE]

(***************************************************************************)
(* The classifier: lines 14-125.                                           *)
(***************************************************************************)
DEFAULT_STYLE_PATHS == <<<<"src", "styles.css">>, <<".storybook", "styles.css">>>>

VITE_CONFIG_PATTERNS ==
    <<<<"vite.config.ts">>, <<"vite.config.mts">>, <<"vite.config.js">>,
      <<"vite.config.mjs">>, <<"vitest.config.ts">>, <<"vitest.config.mts">>,
      <<"vitest.config.storybook.ts">>>>

\* cssFile: string | undefined. No path of a file is empty.
Undefined == <<>>

\* tree.exists(path)
Exists(t, path) == path \in DOMAIN t /\ t[path] # NoFile

\* content?.match(/@import\s+['"]tailwindcss[^'"]*['"](\s+source\([^)]*\))?/)
\* (line 38): no semicolon is asked for.
MatchesEngineImport(t, path) ==
    Exists(t, path) /\ \E i \in 1..Len(t[path]) : t[path][i].k \in {"twImport", "twNoSemi"}

\* The first path of join(projectRoot, relPath), relPath in searchPaths, that Test
\* accepts, Undefined when there is none (the loops of lines 35-42 and 54-60).
FirstPath(projectRoot, searchPaths, Test(_)) ==
    LET hits == {i \in 1..Len(searchPaths) : Test(join(projectRoot, searchPaths[i]))}
    IN  IF hits = {} THEN Undefined
        ELSE join(projectRoot, searchPaths[CHOOSE i \in hits : \A j \in hits : i <= j])

\* (variant: the last matching path instead of the first)
LastPath(projectRoot, searchPaths, Test(_)) ==
    LET hits == {i \in 1..Len(searchPaths) : Test(join(projectRoot, searchPaths[i]))}
    IN  IF hits = {} THEN Undefined
        ELSE join(projectRoot, searchPaths[CHOOSE i \in hits : \A j \in hits : i >= j])

findTailwindCssFileLast(t, projectRoot, additionalPaths) ==
    LastPath(projectRoot, DEFAULT_STYLE_PATHS \o additionalPaths,
             LAMBDA fullPath : MatchesEngineImport(t, fullPath))

\* Lines 29-43.
findTailwindCssFile(t, projectRoot, additionalPaths) ==
    FirstPath(projectRoot, DEFAULT_STYLE_PATHS \o additionalPaths,
              LAMBDA fullPath : MatchesEngineImport(t, fullPath))

\* Lines 48-61.
findAnyStylesFile(t, projectRoot, additionalPaths) ==
    FirstPath(projectRoot, DEFAULT_STYLE_PATHS \o additionalPaths,
              LAMBDA fullPath : Exists(t, fullPath))

\* Lines 70-77 for one config file: the text is not empty, includes
\* '@tailwindcss/vite' and matches /tailwindcss\s*\(\s*\)/.
ConfigUsesPlugin(t, configPath) ==
    /\ Exists(t, configPath)
    /\ t[configPath] # <<Blank>>
    /\ \E i \in 1..Len(t[configPath]) : t[configPath][i].k = "viteImport"
    /\ \E i \in 1..Len(t[configPath]) : t[configPath][i].k = "viteCall"

\* Lines 66-81.
projectUsesVitePlugin(t, projectRoot) ==
    \E i \in 1..Len(VITE_CONFIG_PATTERNS) :
        ConfigUsesPlugin(t, join(projectRoot, VITE_CONFIG_PATTERNS[i]))

\* Object.values(projectGraph.nodes): the nodes in the order of their keys.
NodeOrder == <<"a", "b", "c">>

\* (variant: any styles file makes a project take part, bundler config or not)
ClassifyAnyFile(graph, t, additionalPaths, name) ==
    IF name \notin DOMAIN graph.nodes \/ graph.nodes[name] = <<>> THEN <<>>
    ELSE LET root == graph.nodes[name]
             tailwindCssFile == findTailwindCssFile(t, root, additionalPaths)
             usesVitePlugin == projectUsesVitePlugin(t, root)
             cssFile == IF tailwindCssFile = Undefined
                        THEN findAnyStylesFile(t, root, additionalPaths)
                        ELSE tailwindCssFile
         IN  IF cssFile # Undefined \/ usesVitePlugin
             THEN <<[project |-> name, cssFile |-> cssFile,
                     usesVitePlugin |-> usesVitePlugin]>>
             ELSE <<>>

\* Lines 100-121 for one project: the entries it adds to results.
Classify(graph, t, additionalPaths, name) ==
    IF name \notin DOMAIN graph.nodes \/ graph.nodes[name] = <<>> THEN <<>>
    ELSE LET root == graph.nodes[name]
             tailwindCssFile == findTailwindCssFile(t, root, additionalPaths)
             usesVitePlugin == projectUsesVitePlugin(t, root)
             cssFile == IF tailwindCssFile = Undefined /\ usesVitePlugin
                        THEN findAnyStylesFile(t, root, additionalPaths)
                        ELSE tailwindCssFile
         IN  IF cssFile # Undefined \/ usesVitePlugin
             THEN <<[project |-> name, cssFile |-> cssFile,
                     usesVitePlugin |-> usesVitePlugin]>>
             ELSE <<>>

\* Lines 92-125.
findTailwindProjects(graph, t, additionalPaths) ==
    Concat([i \in 1..Len(NodeOrder) |-> Classify(graph, t, additionalPaths, NodeOrder[i])])


(***************************************************************************)
(* The inputs of the model.                                                *)
(***************************************************************************)
\* projectGraph.nodes as name -> data.root.
RootOf == [n \in Names |->
            CASE n = "a" -> <<"apps", "a">>
              [] n = "b" -> <<"libs", "b">>
              [] n = "c" -> <<"packages", "c">>]

\* projectGraph.dependencies of a list of edges <<source, target>>: per source, the
\* targets in the order of the list.
TargetsOf(edges, n) ==
    LET F[i \in 0..Len(edges)] ==
            IF i = 0 THEN <<>>
            ELSE IF edges[i][1] = n THEN Append(F[i - 1], edges[i][2]) ELSE F[i - 1]
    IN  F[Len(edges)]

GraphOf(nodes, edges) ==
    [nodes |-> nodes, dependencies |-> [n \in Names |-> TargetsOf(edges, n)]]

\* The generator has not returned yet.
NoResult == [returned |-> FALSE, outOfSyncMessage |-> <<>>]

(***************************************************************************)
(* SpecCollect: collectDependencies, one loop iteration per step, on every *)
(* graph of at most MaxEdges edges over Names and every origin.            *)
(***************************************************************************)
InitCollect ==
    /\ \E edges \in SeqsUpTo(Names \X Names, MaxEdges) :
          projectGraph = GraphOf(RootOf, edges)
    /\ projectName \in Names
    /\ queue = CollectInit(projectName).queue
    /\ visited = CollectInit(projectName).visited
    /\ dependencies = CollectInit(projectName).dependencies
    /\ expanded = <<>>
    /\ pc = "collect"
    /\ tree = <<>>
    /\ additionalStylePaths = <<>>
    /\ tailwindProjects = <<>>
    /\ next = 0
    /\ updatedProjects = <<>>
    /\ result = NoResult
    /\ writes = <<>>
    /\ treeBefore = <<>>
    /\ updated = "unset"
    /\ merges = 0
    /\ firstText = <<>>

\* One iteration of the while loop of lines 138-149.
CollectStep ==
    /\ pc = "collect"
    /\ queue # <<>>
    /\ LET st == CollectIter([dependencies |-> dependencies, queue |-> queue,
                              visited |-> visited], projectGraph)
       IN  /\ dependencies' = st.dependencies
           /\ queue' = st.queue
           /\ visited' = st.visited
    /\ expanded' = IF Head(queue) \in visited THEN expanded ELSE Append(expanded, Head(queue))
    /\ UNCHANGED <<projectGraph, tree, pc, projectName, runVars, mergeVars>>

\* The loop ends and the Set is returned (line 151).
CollectReturn ==
    /\ pc = "collect"
    /\ queue = <<>>
    /\ pc' = "collected"
    /\ UNCHANGED <<projectGraph, tree, runVars, mergeVars, collectVars>>

NextCollect == CollectStep \/ CollectReturn

SpecCollect == InitCollect /\ [][NextCollect]_vars

\* The loop is sequential code: an iteration that can run does run, and the return
\* follows the last iteration.
SpecCollectFair == SpecCollect /\ WF_vars(CollectStep) /\ WF_vars(CollectReturn)

(***************************************************************************)
(* SpecMerge: updateSourceDirectives applied again and again to one file   *)
(* of project "a", the graph changing between applications.                *)
(***************************************************************************)
MergeProject == "a"
MergePath == <<"apps", "a", "src", "styles.css">>

\* The directive the generator renders into MergePath for a dependency.
DirectiveFor(n) == SourceLine(relative(dirname(MergePath), RootOf[n]))

\* The lines of the documents handed to the merger: the markers, the imports, other
\* text, and @source lines (the one for "c" has a path through packages/).
MergeLines ==
    {START_MARKER, END_MARKER, TwImport, AnyImport, Text, DirectiveFor("b"),
     DirectiveFor("c")}

\* The texts: no file, the empty text, and every text of 1..MaxDocLen such lines.
MergeDocs == SeqsUpTo(MergeLines, MaxDocLen) \cup {<<Blank>>}

\* The graphs: no dependency, one, another one, two listed in either order, a
\* chain, a cycle back to the project; and the chain with "b" missing from the
\* nodes, and with "b" a node without root.
MergeGraphs ==
    {GraphOf(RootOf, edges) : edges \in
        {<<>>,
         <<<<"a", "b">>>>,
         <<<<"a", "c">>>>,
         <<<<"a", "c">>, <<"a", "b">>>>,
         <<<<"a", "b">>, <<"a", "c">>>>,
         <<<<"a", "b">>, <<"b", "c">>>>,
         <<<<"a", "b">>, <<"b", "a">>>>}}
    \cup {GraphOf(nodes, <<<<"a", "b">>, <<"b", "c">>>>) : nodes \in
            {[n \in Names \ {"b"} |-> RootOf[n]], [RootOf EXCEPT !["b"] = <<>>]}}

InitMerge ==
    /\ projectGraph \in MergeGraphs
    /\ \E doc \in MergeDocs : tree = [p \in {MergePath} |-> doc]
    /\ treeBefore = tree
    /\ firstText = ReadOrEmpty(tree, MergePath)
    /\ updated = "unset"
    /\ merges = 0
    /\ writes = <<>>
    /\ pc = "merge"
    /\ additionalStylePaths = <<>>
    /\ tailwindProjects = <<>>
    /\ next = 0
    /\ updatedProjects = <<>>
    /\ result = NoResult
    /\ projectName = MergeProject
    /\ queue = <<>>
    /\ visited = {}
    /\ dependencies = <<>>
    /\ expanded = <<>>

\* One call updateSourceDirectives(tree, "a", MergePath, projectGraph).
Merge ==
    /\ pc = "merge"
    /\ LET r == updateSourceDirectives(tree, MergeProject, MergePath, projectGraph)
       IN  /\ tree' = [tree EXCEPT ![MergePath] = r.content]
           /\ writes' = IF r.wrote THEN <<MergePath>> ELSE <<>>
           /\ updated' = IF r.updated THEN "true" ELSE "false"
    /\ treeBefore' = tree
    /\ merges' = IF merges < 2 THEN merges + 1 ELSE merges
    /\ UNCHANGED <<projectGraph, pc, additionalStylePaths, tailwindProjects, next,
                   updatedProjects, result, firstText, collectVars>>

\* Between two runs the workspace's graph changes.
ChangeGraph ==
    /\ pc = "merge"
    /\ merges > 0
    /\ projectGraph' \in MergeGraphs \ {projectGraph}
    /\ merges' = 0
    /\ UNCHANGED <<tree, pc, runVars, treeBefore, updated, firstText, collectVars>>

NextMerge == Merge \/ ChangeGraph

SpecMerge == InitMerge /\ [][NextMerge]_vars

(***************************************************************************)
(* Spec: one run of updateTailwindGlobsGenerator (lines 248-286) over a    *)
(* workspace of three projects.                                            *)
(***************************************************************************)
MaxFiles == 3       \* files the workspace holds when the run starts

SyncedForB == <<TwImport, Blank, START_MARKER, DirectiveFor("b"), END_MARKER, Blank>>

\* The files a workspace may hold, and for each the texts it may hold.
FileChoices ==
    [p \in {<<"apps", "a", "src", "styles.css">>, <<"apps", "a", ".storybook", "styles.css">>,
            <<"apps", "a", "styles.css">>, <<"apps", "a", "vite.config.ts">>,
            <<"apps", "a", "vitest.config.mts">>, <<"libs", "b", "src", "styles.css">>,
            <<"libs", "b", "vite.config.ts">>, <<"src", "styles.css">>} |->
        CASE p = <<"apps", "a", "src", "styles.css">> ->
                {<<TwImport>>, <<TwImport, Blank>>, <<Text>>, <<TwNoSemi, Blank>>,
                 <<END_MARKER, START_MARKER>>, SyncedForB}
          [] p = <<"apps", "a", ".storybook", "styles.css">> -> {<<TwImport, Blank>>, <<Text>>}
          [] p = <<"apps", "a", "styles.css">> -> {<<TwImport, Blank>>}
          [] p = <<"apps", "a", "vite.config.ts">> ->
                {<<ViteImport, ViteCall>>, <<ViteImport>>}
          [] p = <<"apps", "a", "vitest.config.mts">> -> {<<ViteImport, ViteCall>>}
          [] p = <<"libs", "b", "src", "styles.css">> -> {<<TwImport, Blank>>, <<Text>>}
          [] p = <<"libs", "b", "vite.config.ts">> -> {<<ViteImport, ViteCall>>}
          [] p = <<"src", "styles.css">> -> {<<TwImport, Blank>>}]

FileCount(t) == Cardinality({p \in DOMAIN t : t[p] # NoFile})

\* The trees over the paths ps with at most MaxFiles files.
RECURSIVE TreesOn(_)
TreesOn(ps) ==
    IF ps = {} THEN {[q \in {} |-> NoFile]}
    ELSE LET p == CHOOSE q \in ps : TRUE
             rest == TreesOn(ps \ {p})
         IN  {[q \in ps |-> IF q = p THEN NoFile ELSE t[q]] : t \in rest}
             \cup {[q \in ps |-> IF q = p THEN d ELSE t[q]] :
                      t \in {u \in rest : FileCount(u) < MaxFiles}, d \in FileChoices[p]}

Trees == TreesOn(DOMAIN FileChoices)

\* options.additionalStylePaths: none, a path inside the project, a path that leads
\* from a project two levels deep into project "b".
AdditionalPathChoices ==
    {<<>>, <<<<"styles.css">>>>, <<<<"..", "..", "libs", "b", "src", "styles.css">>>>}

\* The graphs: "c" may have no root; no edge, one edge, a chain.
RunGraphs ==
    {GraphOf([RootOf EXCEPT !["c"] = rootC], edges) :
        rootC \in {RootOf["c"], <<>>},
        edges \in {<<>>, <<<<"a", "b">>>>, <<<<"a", "b">>, <<"b", "c">>>>}}

Init ==
    /\ projectGraph \in RunGraphs
    /\ tree \in Trees
    /\ additionalStylePaths \in AdditionalPathChoices
    /\ treeBefore = tree
    /\ pc = "start"
    /\ tailwindProjects = <<>>
    /\ next = 0
    /\ updatedProjects = <<>>
    /\ result = NoResult
    /\ writes = <<>>
    /\ updated = "unset"
    /\ merges = 0
    /\ firstText = <<>>
    /\ projectName = ""
    /\ queue = <<>>
    /\ visited = {}
    /\ dependencies = <<>>
    /\ expanded = <<>>

\* Lines 252-260: the graph is there, the projects are classified.
FindTailwindProjects ==
    /\ pc = "start"
    /\ tailwindProjects' = findTailwindProjects(projectGraph, tree, additionalStylePaths)
    /\ next' = 1
    /\ pc' = "update"
    /\ UNCHANGED <<projectGraph, tree, additionalStylePaths, updatedProjects, result,
                   writes, mergeVars, collectVars>>

\* Lines 263-275: one iteration of the loop over tailwindProjects.
UpdateProject ==
    /\ pc = "update"
    /\ next <= Len(tailwindProjects)
    /\ LET project == tailwindProjects[next].project
           cssFile == tailwindProjects[next].cssFile
           r == updateSourceDirectives(tree, project, cssFile, projectGraph)
       IN  IF cssFile # Undefined
           THEN /\ tree' = IF r.wrote THEN [tree EXCEPT ![cssFile] = r.content] ELSE tree
                /\ writes' = IF r.wrote
                             THEN Append(writes, [path |-> cssFile, by |-> project])
                             ELSE writes
                /\ updatedProjects' = IF r.updated THEN Append(updatedProjects, project)
                                      ELSE updatedProjects
                /\ updated' = IF r.updated THEN "true" ELSE "false"
           ELSE UNCHANGED <<tree, writes, updatedProjects, updated>>
    /\ next' = next + 1
    /\ UNCHANGED <<projectGraph, additionalStylePaths, pc, tailwindProjects, result,
                   treeBefore, merges, firstText, collectVars>>

\* Lines 277-285.
Return ==
    /\ pc = "update"
    /\ next > Len(tailwindProjects)
    /\ result' = [returned |-> TRUE, outOfSyncMessage |-> updatedProjects]
    /\ pc' = "done"
    /\ UNCHANGED <<projectGraph, tree, additionalStylePaths, tailwindProjects, next,
                   updatedProjects, writes, mergeVars, collectVars>>

Next == FindTailwindProjects \/ UpdateProject \/ Return

Spec == Init /\ [][Next]_vars


(***************************************************************************)
(* Properties of collectDependencies, under SpecCollect.                   *)
(***************************************************************************)
\* The targets of the edges that leave the names of S.
Successors(graph, S) == UNION {Range(DepsOf(graph, n)) : n \in S}

RECURSIVE Closure(_, _, _)
Closure(graph, S, k) ==
    IF k = 0 THEN S ELSE Closure(graph, S \cup Successors(graph, S), k - 1)

\* The names reachable from origin by one or more edges.
Reachable(graph, origin) ==
    Closure(graph, Successors(graph, {origin}), Cardinality(Names))

NoDuplicates(s) == \A i, j \in 1..Len(s) : s[i] = s[j] => i = j

\* C6: the Set collectDependencies returns never holds the origin project, whatever
\* the graph (self-loops and cycles back to the origin included).
C6_OriginExcluded ==
    pc = "collected" => projectName \notin Range(dependencies)

\* C7: the Set returned holds every name other than the origin that is reachable from
\* the origin by one or more edges, at any depth, holds no name that is not
\* reachable, and holds each name once.
C7_TransitiveReachability ==
    pc = "collected" =>
        /\ Reachable(projectGraph, projectName) \ {projectName} \subseteq Range(dependencies)
        /\ Range(dependencies) \subseteq Reachable(projectGraph, projectName)
        /\ NoDuplicates(dependencies)

\* A returned Set with a name that is no direct dependency of the origin, and a name
\* that two edges from different expanded projects lead to.
C7_Witness ==
    /\ pc = "collected"
    /\ \E n \in Range(dependencies) :
          /\ n # projectName
          /\ n \notin Range(DepsOf(projectGraph, projectName))
    /\ \E n \in Range(dependencies), x, y \in visited :
          /\ x # y
          /\ n \in Range(DepsOf(projectGraph, x))
          /\ n \in Range(DepsOf(projectGraph, y))

(***************************************************************************)
(* Properties of updateSourceDirectives, under SpecMerge. A state with     *)
(* merges >= 1 is the state right after a call: treeBefore holds the text  *)
(* the call read, tree the text it left, projectGraph the graph it used.   *)
(***************************************************************************)
TextBefore == ReadOrEmpty(treeBefore, MergePath)
TextAfter == ReadOrEmpty(tree, MergePath)

\* The directive list and the block the last call computed.
CurrentDirectives == sourceDirectives(MergeProject, MergePath, projectGraph)
CurrentBlock == managedBlock(CurrentDirectives)

\* C1: applying the merger a second time with the same graph leaves the text
\* identical, reports unchanged and writes nothing, whatever the initial text.
C1_Idempotence ==
    merges = 2 => /\ tree = treeBefore
                  /\ updated = "false"
                  /\ writes = <<>>

\* C2: with an empty directive list and no markers in the file, the merger writes
\* no block: the text is left as it was and the merge reports unchanged.
C2_NoBlockWhenEmpty ==
    (merges >= 1 /\ CurrentDirectives = <<>> /\ ~hasMarkers(TextBefore)) =>
        /\ tree = treeBefore
        /\ updated = "false"
        /\ writes = <<>>

\* C3: after any merge the text holds exactly one start marker and exactly one end
\* marker, whatever the text held before.
C3_SingleBlock ==
    merges >= 1 => /\ Count(TextAfter, START_MARKER) = 1
                   /\ Count(TextAfter, END_MARKER) = 1

\* The text c with the lines ins put in after its line i.
Splice(c, i, ins) == SubSeq(c, 1, i) \o ins \o SubSeq(c, i + 1, Len(c))

\* The text without its legacy @source lines, the first line apart (the migration).
WithoutLegacy(o) == <<o[1]>> \o SelectSeq(Tail(o), LAMBDA l : ~IsLegacy(l))

\* C4 as stated: every merge leaves the text outside the managed block as it was.
\* The result is the original text with the block put in at one place, or put in
\* place of a region that starts with a start marker and ends with an end marker
\* (a blank separator line on either side of a block is not counted as a change).
C4_Preservation ==
    merges >= 1 =>
        LET o == TextBefore
            r == TextAfter
        IN  \/ r = o
            \/ \E i \in 0..Len(o), j \in 0..Len(o), sepBefore, sepAfter \in {<<>>, <<Blank>>} :
                  /\ i <= j
                  /\ j > i => (o[i + 1] = START_MARKER /\ o[j] = END_MARKER)
                  /\ r = SubSeq(o, 1, i) \o sepBefore \o CurrentBlock \o sepAfter
                             \o SubSeq(o, j + 1, Len(o))

\* C4 amended: a merge changes nothing outside the block but for the migration and
\* the separator. With both markers in the text, the text is unchanged, or the region
\* from the first start marker to the first end marker after it is replaced by the
\* block and the text before and after that region is unchanged. Otherwise the
\* result is the text without its legacy @source lines (a legacy first line stays),
\* with the block and one blank separator line put in at one place.
C4_PreservationAmended ==
    merges >= 1 =>
        LET o == TextBefore
            r == TextAfter
        IN  IF hasMarkers(o)
            THEN \/ r = o
                 \/ \E i, j \in 1..Len(o) :
                       /\ i < j
                       /\ o[i] = START_MARKER
                       /\ o[j] = END_MARKER
                       /\ \A h \in 1..(i - 1) : o[h] # START_MARKER
                       /\ \A h \in (i + 1)..(j - 1) : o[h] # END_MARKER
                       /\ r = SubSeq(o, 1, i - 1) \o CurrentBlock \o SubSeq(o, j + 1, Len(o))
            ELSE \E i \in 0..Len(WithoutLegacy(o)) :
                    \/ r = Splice(WithoutLegacy(o), i, <<Blank>> \o CurrentBlock)
                    \/ r = Splice(WithoutLegacy(o), i, CurrentBlock \o <<Blank>>)

\* A fresh insertion into a text that had a legacy line, with text left on both sides
\* of the block.
C4_Witness ==
    /\ merges >= 1
    /\ ~hasMarkers(TextBefore)
    /\ \E i \in 2..Len(TextBefore) : IsLegacy(TextBefore[i])
    /\ TextAfter[1] = TwImport
    /\ TextAfter[Len(TextAfter)] = Text
    /\ Includes(TextAfter, START_MARKER)

\* C5: with no markers and an import-like line in the text (the engine import if
\* there is one, else the first generic import), the block is put in right after that
\* line, wherever the line stands: the lines up to the anchor, a separator, the block,
\* then the lines that followed the anchor.
C5_InsertAfterAnchor ==
    (merges >= 1 /\ ~hasMarkers(TextBefore) /\ ImportMatch(Cleaned(TextBefore)) # 0) =>
        TextAfter = Splice(Cleaned(TextBefore), ImportMatch(Cleaned(TextBefore)),
                           <<Blank>> \o CurrentBlock)

(***************************************************************************)
(* Properties of a run, under Spec. treeBefore is the tree the run started *)
(* with, which the classifier read.                                        *)
(***************************************************************************)
\* The search paths of a project, defaults first, joined to its root.
SearchPathsOf(n) ==
    [i \in 1..Len(DEFAULT_STYLE_PATHS \o additionalStylePaths) |->
        join(projectGraph.nodes[n], (DEFAULT_STYLE_PATHS \o additionalStylePaths)[i])]

\* The search paths of n that hold a file with the engine import (rule A), and those
\* that hold a file, when the run started.
EngineImportAt(n) ==
    {i \in DOMAIN SearchPathsOf(n) : MatchesEngineImport(treeBefore, SearchPathsOf(n)[i])}
FileAt(n) == {i \in DOMAIN SearchPathsOf(n) : Exists(treeBefore, SearchPathsOf(n)[i])}

\* Rule B: a bundler config of n names the integration package and calls its factory.
RuleB(n) == projectUsesVitePlugin(treeBefore, projectGraph.nodes[n])

Least(S) == CHOOSE i \in S : \A j \in S : i <= j

\* The entries of tailwindProjects for project n.
EntriesOf(n) == {i \in 1..Len(tailwindProjects) : tailwindProjects[i].project = n}

\* Project n is classified once, with this target file (Undefined: none).
TargetIs(n, path) ==
    /\ Cardinality(EntriesOf(n)) = 1
    /\ \A i \in EntriesOf(n) : tailwindProjects[i].cssFile = path

WrittenBy(n) == {i \in 1..Len(writes) : writes[i].by = n}

\* The rule of target selection for project n.
TargetRule(n) ==
    /\ EngineImportAt(n) # {} => TargetIs(n, SearchPathsOf(n)[Least(EngineImportAt(n))])
    /\ (EngineImportAt(n) = {} /\ RuleB(n) /\ FileAt(n) # {}) =>
           TargetIs(n, SearchPathsOf(n)[Least(FileAt(n))])
    /\ (EngineImportAt(n) = {} /\ RuleB(n) /\ FileAt(n) = {}) =>
           (TargetIs(n, Undefined) /\ WrittenBy(n) = {})

\* C8 as stated: for every project, the first search path (defaults, then the
\* additional paths) with an engine import is the target file, bundler config or not;
\* with no such file but a matching bundler config, the first search path with a file
\* is; a participating project with no file has no target and nothing written for it.
C8_TargetSelection ==
    pc \in {"update", "done"} => \A n \in DOMAIN projectGraph.nodes : TargetRule(n)

\* C8 amended: the rule holds for every project with a non-empty root path; a project
\* whose root path is empty is not classified at all, whatever its files hold.
C8_TargetSelectionRooted ==
    pc \in {"update", "done"} =>
        \A n \in DOMAIN projectGraph.nodes :
            IF projectGraph.nodes[n] # <<>> THEN TargetRule(n)
            ELSE EntriesOf(n) = {} /\ WrittenBy(n) = {}

\* A finished run in which a project without engine import but with a matching
\* bundler config and two files on its search paths got the first as target, written.
C8_Witness ==
    /\ pc = "done"
    /\ \E n \in DOMAIN projectGraph.nodes :
          /\ projectGraph.nodes[n] # <<>>
          /\ EngineImportAt(n) = {}
          /\ RuleB(n)
          /\ Cardinality({SearchPathsOf(n)[i] : i \in FileAt(n)}) >= 2
          /\ WrittenBy(n) # {}

\* Project n matches neither rule A nor rule B.
NeitherRule(n) == EngineImportAt(n) = {} /\ ~RuleB(n)

IsPrefix(a, b) == Len(a) <= Len(b) /\ SubSeq(b, 1, Len(a)) = a

\* The CSS files of project n: the files on its search paths inside its root.
OwnFiles(n) ==
    {path \in DOMAIN tree :
        /\ IsPrefix(projectGraph.nodes[n], path)
        /\ \E i \in DOMAIN SearchPathsOf(n) : SearchPathsOf(n)[i] = path}

\* C9 as stated: for a project that matches neither rule, the run writes no file of
\* the project, does not name it in the result, and its CSS files are unchanged.
\* (The generator has no error exit: every run reaches its return.)
C9_NonParticipation ==
    pc = "done" =>
        \A n \in DOMAIN projectGraph.nodes :
            NeitherRule(n) =>
                /\ WrittenBy(n) = {}
                /\ n \notin Range(result.outOfSyncMessage)
                /\ \A path \in OwnFiles(n) : tree[path] = treeBefore[path]

\* C9 apart from files that another project targets: a project that matches neither
\* rule is not classified, nothing is written for it, it is not named in the result,
\* and each of its CSS files is unchanged unless a search path of a participating
\* project leads to that same file and made it that project's target.
C9_NonParticipationAmended ==
    pc = "done" =>
        \A n \in DOMAIN projectGraph.nodes :
            NeitherRule(n) =>
                /\ EntriesOf(n) = {}
                /\ WrittenBy(n) = {}
                /\ n \notin Range(result.outOfSyncMessage)
                /\ \A path \in OwnFiles(n) :
                       \/ tree[path] = treeBefore[path]
                       \/ \E e \in 1..Len(tailwindProjects) :
                             /\ tailwindProjects[e].cssFile = path
                             /\ tailwindProjects[e].project # n

\* A finished run that wrote a file, with a project that matches neither rule and
\* has a CSS file of its own.
C9_Witness ==
    /\ pc = "done"
    /\ writes # <<>>
    /\ \E n \in DOMAIN projectGraph.nodes :
          /\ projectGraph.nodes[n] # <<>>
          /\ NeitherRule(n)
          /\ \E path \in OwnFiles(n) : tree[path] # NoFile

\* C10: the result names exactly the projects whose target file's text differs after
\* the run from the text before it, tree.write is called only for those projects, and
\* the result is empty exactly when no file's text changed.
C10_ResultNamesChanged ==
    pc = "done" =>
        /\ \A i \in 1..Len(tailwindProjects) :
              tailwindProjects[i].cssFile # Undefined =>
                  (tailwindProjects[i].project \in Range(result.outOfSyncMessage)
                      <=> tree[tailwindProjects[i].cssFile]
                              # treeBefore[tailwindProjects[i].cssFile])
        /\ \A n \in Range(result.outOfSyncMessage) :
              \E i \in EntriesOf(n) : tailwindProjects[i].cssFile # Undefined
        /\ \A w \in 1..Len(writes) : tree[writes[w].path] # treeBefore[writes[w].path]
        /\ (result.outOfSyncMessage = <<>>) <=> (tree = treeBefore)

(***************************************************************************)
(* Properties of updateSourceDirectives over several runs, under SpecMerge.*)
(***************************************************************************)
\* The text holds neither marker.
NoMarkers(doc) == ~Includes(doc, START_MARKER) /\ ~Includes(doc, END_MARKER)

\* The lines between the first start marker and the first end marker after it.
BetweenMarkers(doc) == SubSeq(doc, MarkerMatch(doc)[1] + 1, MarkerMatch(doc)[2] - 1)

\* C11: starting from a text without markers, after every merge of every sequence of
\* merges with the graph changing in between, the text holds one start marker and one
\* end marker, and the lines between them are the sorted directive list of the graph
\* the last merge used: one directive per project (with a root) reachable in that
\* graph, none for a project that is no longer reachable.
C11_BlockReflectsGraph ==
    (merges >= 1 /\ NoMarkers(firstText)) =>
        /\ Count(TextAfter, START_MARKER) = 1
        /\ Count(TextAfter, END_MARKER) = 1
        /\ MarkerMatch(TextAfter) # <<0, 0>>
        /\ BetweenMarkers(TextAfter) = CurrentDirectives
        /\ Range(BetweenMarkers(TextAfter))
               = {DirectiveFor(n) : n \in {m \in Reachable(projectGraph, MergeProject) :
                                              HasRoot(projectGraph, m)}}

\* A merge, in a sequence that started without markers, that found a block of an
\* earlier graph and both removed a directive from it and added one to it.
C11_Witness ==
    /\ merges >= 1
    /\ NoMarkers(firstText)
    /\ hasMarkers(TextBefore)
    /\ \E l \in Range(BetweenMarkers(TextBefore)) : l \notin Range(BetweenMarkers(TextAfter))
    /\ \E l \in Range(BetweenMarkers(TextAfter)) : l \notin Range(BetweenMarkers(TextBefore))

\* The order of the rendered strings: line x does not come after line y.
NotAfter(x, y) == ~CharsLess(DirectiveChars(y), DirectiveChars(x))

\* The dependencies of the project in graph g in the order the traversal met them,
\* and the directives rendered for them in that order, before the sort.
TraversalOrder(g) == collectDependencies(MergeProject, g)
Unsorted(g) == Directives(TraversalOrder(g), dirname(MergePath), g)

C15_InconsistentDropped ==
    (merges >= 1 /\ NoMarkers(firstText)) =>
        LET written == BetweenMarkers(TextAfter)
            deps == Reachable(projectGraph, MergeProject)
            rooted == {n \in deps : HasRoot(projectGraph, n)}
            DirectiveOf(n) ==
                SourceLine(relative(dirname(MergePath), projectGraph.nodes[n]))
        IN  /\ MarkerMatch(TextAfter) # <<0, 0>>
            /\ \A n \in rooted : Count(written, DirectiveOf(n)) = 1
            /\ Len(written) = Cardinality(rooted)

\* A merge with a graph in which a dependency is missing from the nodes or has no
\* root, and a rooted dependency is reachable only through that one.
C15_Witness ==
    /\ merges >= 1
    /\ NoMarkers(firstText)
    /\ \E n \in Range(DepsOf(projectGraph, MergeProject)) :
          /\ ~HasRoot(projectGraph, n)
          /\ \E m \in Range(DepsOf(projectGraph, n)) :
                /\ HasRoot(projectGraph, m)
                /\ m \notin Range(DepsOf(projectGraph, MergeProject))
                /\ Includes(BetweenMarkers(TextAfter), DirectiveFor(m))

\* C16: after the merge of a text without markers no legacy @source line (path
\* through "packages/") is left outside the managed block, wherever the line stood
\* in the text, the first line included.
C16_Migration ==
    (merges >= 1 /\ NoMarkers(TextBefore)) =>
        \A i \in 1..Len(TextAfter) :
            IsLegacy(TextAfter[i]) =>
                MarkerMatch(TextAfter)[1] < i /\ i < MarkerMatch(TextAfter)[2]

\* The text holds no import-like line (an @import statement ending in a semicolon).
NoImport(doc) == \A i \in 1..Len(doc) : doc[i].k \notin {"import", "twImport"}

\* C17 as stated: with the markers absent and no import-like line in the text (a
\* missing file and an empty text included), the result is the block, a blank
\* separator line, then the original text unchanged, and the merge reports changed.
C17_Prepend ==
    (merges >= 1 /\ ~hasMarkers(TextBefore) /\ NoImport(TextBefore)) =>
        /\ TextAfter = CurrentBlock \o <<Blank>> \o TextBefore
        /\ updated = "true"
        /\ writes # <<>>

\* C17 amended: ... the result is the block, a blank separator line, then the
\* original text without the legacy @source lines the migration removes (every
\* legacy line but one on the first line), and the merge reports changed.
C17_PrependAmended ==
    (merges >= 1 /\ ~hasMarkers(TextBefore) /\ NoImport(TextBefore)) =>
        /\ TextAfter = CurrentBlock \o <<Blank>> \o WithoutLegacy(TextBefore)
        /\ updated = "true"
        /\ writes # <<>>

\* A merge that put a block with a directive on top of a text without import, from
\* which it removed a legacy line and kept other text.
C17_Witness ==
    /\ merges >= 1
    /\ ~hasMarkers(TextBefore)
    /\ NoImport(TextBefore)
    /\ \E i \in 2..Len(TextBefore) : IsLegacy(TextBefore[i])
    /\ CurrentDirectives # <<>>
    /\ TextAfter[1] = START_MARKER
    /\ TextAfter[Len(TextAfter)] = Text

\* C18: when the text holds a managed block with at least one directive and the new
\* directive list is empty, the merge puts the empty block (the start marker line
\* directly followed by the end marker line) in place of the block, keeps the text
\* before and after the block as it was, and reports changed.
C18_ShrinkToEmpty ==
    (/\ merges >= 1
     /\ MarkerMatch(TextBefore) # <<0, 0>>
     /\ \E l \in Range(BetweenMarkers(TextBefore)) : l.k = "source"
     /\ CurrentDirectives = <<>>) =>
        LET first == MarkerMatch(TextBefore)[1]
            last == MarkerMatch(TextBefore)[2]
        IN  /\ TextAfter = SubSeq(TextBefore, 1, first - 1)
                              \o <<START_MARKER, END_MARKER>>
                              \o SubSeq(TextBefore, last + 1, Len(TextBefore))
            /\ updated = "true"
            /\ writes # <<>>

\* A merge with an empty directive list of a text that held a block with a
\* directive, with text before the block and text after it.
C18_Witness ==
    /\ merges >= 1
    /\ MarkerMatch(TextBefore) # <<0, 0>>
    /\ \E l \in Range(BetweenMarkers(TextBefore)) : l.k = "source"
    /\ CurrentDirectives = <<>>
    /\ MarkerMatch(TextBefore)[1] > 1
    /\ MarkerMatch(TextBefore)[2] < Len(TextBefore)
    /\ TextBefore[Len(TextBefore)] = Text
    /\ Count(TextAfter, START_MARKER) = 1

(***************************************************************************)
(* Properties of a run across projects, under Spec.                        *)
(***************************************************************************)
\* The entries of tailwindProjects that have a target file: the projects for which
\* the loop of lines 263-275 calls updateSourceDirectives, which reads the target
\* (line 182) and writes it (lines 207, 240).
WithTarget == {i \in 1..Len(tailwindProjects) : tailwindProjects[i].cssFile # Undefined}

\* C13: within one run no path is written twice, and no project's pipeline reads or
\* writes the target file of another project (the target files of the classified
\* projects are pairwise different), whatever the projects and the additional
\* search paths are.
C13_ProjectsIndependent ==
    /\ \A i, j \in 1..Len(writes) : writes[i].path = writes[j].path => i = j
    /\ \A i, j \in WithTarget :
          tailwindProjects[i].cssFile = tailwindProjects[j].cssFile => i = j

(***************************************************************************)
(* Termination of collectDependencies, under SpecCollectFair.              *)
(***************************************************************************)
\* C14: on every graph, cycles and self-loops included, the loop ends (the queue
\* becomes empty and the Set is returned), and no project name has its outgoing
\* edges expanded more than once.
C14_Termination ==
    /\ <>(pc = "collected" /\ queue = <<>>)
    /\ [](NoDuplicates(expanded) /\ Range(expanded) = visited)

\* A returned traversal of a graph with a cycle through an expanded project, in
\* which a name was queued more often than it was expanded.
C14_Witness ==
    /\ pc = "collected"
    /\ \E n \in visited : n \in Reachable(projectGraph, n)
    /\ \E n \in visited :
          Cardinality({x \in visited : n \in Range(DepsOf(projectGraph, x))}) >= 2

\* The first line of a text that holds the engine import as the classifier knows it
\* (line 38), 0 when there is none.
EngineImportLine(doc) == FirstIndex(doc, 1, LAMBDA l : l.k \in {"twImport", "twNoSemi"})

\* The entries already processed whose target was chosen by rule A, had no markers
\* when the run started, and is the target of no other entry.
RuleATargets ==
    {i \in WithTarget :
        /\ i < next
        /\ MatchesEngineImport(treeBefore, tailwindProjects[i].cssFile)
        /\ ~hasMarkers(treeBefore[tailwindProjects[i].cssFile])
        /\ \A j \in WithTarget : tailwindProjects[j].cssFile = tailwindProjects[i].cssFile => j = i}

\* C19: whenever the classifier chose a file as target for its engine import and the
\* file has no markers, the merger anchors the block at that engine import: in the
\* text written the block follows the engine import line (separator, then the start
\* marker), it is not put at the top of the file or before the import.
C19_AnchorAgreement ==
    pc \in {"update", "done"} =>
        \A i \in RuleATargets :
            LET new == tree[tailwindProjects[i].cssFile]
                anchor == EngineImportLine(new)
            IN  /\ anchor # 0
                /\ anchor + 2 <= Len(new)
                /\ new[anchor + 1] = Blank
                /\ new[anchor + 2] = START_MARKER

====
